---- MODULE Spec2Model ----
(***************************************************************************)
(* A model of the Vulkan device layer of the goldfish engine:              *)
(*   - find_queue_families, the queue family resolver (device.rs 173-213), *)
(*   - the physical device selection loop of VulkanDevice::new             *)
(*     (device.rs 242-263), and rate_device_suitability, which scores the  *)
(*     devices (device.rs 215-240, 414-438),                               *)
(*   - the construction of the logical device and its queues               *)
(*     (device.rs 267-311),                                                *)
(*   - queue submission and the upload context (device.rs 382-412,         *)
(*     476-529),                                                           *)
(*   - shader and texture destruction and VulkanDevice::destroy            *)
(*     (shader.rs 26-31, texture.rs 169-176, device.rs 455-468),           *)
(*   - create_texture: what it describes to the API and its steps under    *)
(*     the allocator lock (texture.rs 39-167), and the identity of a       *)
(*     VulkanTexture (texture.rs 22-36).                                   *)
(* Each part has its own specification over the shared variables; the      *)
(* variables of the other parts stay at their initial value.               *)
(***************************************************************************)
EXTENDS Integers, Sequences, FiniteSets, TLC

VARIABLES
    \* queue family resolver
    qf_properties,      \* the queue family property records of the device
    qf_result,          \* <<"pending">> or <<"returned", Option<QueueFamilyIndices>>>
    \* physical device selection
    physical_devices,   \* the enumerated devices, each with its suitability score
    sel_result,         \* "pending", a panic, or the selected device
    candidates,         \* the enumerated devices as the driver describes them
    overflow_checks,    \* whether the build checks integer overflow
    rated,              \* what rate_device_suitability returned, device by device
    \* queue submission and the upload contexts
    queue_family_indices, \* VulkanDevice::queue_family_indices
    queue_lock,         \* per role, the thread holding that role's Mutex, or "free"
    pc,                 \* per thread, its position in the call it is running
    op,                 \* per thread, the call it is running
    calls,              \* per thread, the number of calls it has started
    call_log,           \* per thread, the steps its current call has done
    fence_signaled,     \* per fence, whether it is signaled
    hw_queue,           \* per physical queue, the submissions the GPU has not finished
    completed,          \* the submissions the GPU has finished
    fence_uses,         \* history: which call has reset which fence
    fence_overlap,      \* history: the calls whose fence another unresolved call used
    \* resource destruction and device teardown
    shader_state,       \* per shader, "none", "live" or "destroyed" (passed to destroy_shader)
    texture_state,      \* per texture, "none", "live" or "destroyed" (passed to destroy_texture)
    handle_state,       \* per API handle or allocation, "none", "alive" or "freed"
    destruction_queue,  \* the batches handed to queue_destruction and not yet freed
    in_flight,          \* the submitted GPU work that has not finished, with the handles it uses
    work_count,         \* the number of submissions made
    freed_in_flight,    \* the handles that were freed while in-flight work used them
    last_call,          \* the last call into the device, with the API calls it made
    vma,                \* VulkanDevice::vma, Some(allocator) or None
    alive,              \* which of device, surface, debug messenger, instance exist
    destroy_pc,         \* the position of VulkanDevice::destroy
    teardown,           \* the steps VulkanDevice::destroy has done, in order
    \* texture descriptions and texture identity
    tex_request,        \* the arguments of create_texture
    tex_built,          \* the create infos and the texture the call builds
    tex_pair,           \* two VulkanTexture values
    tex_cmp,            \* the result of == and of hash on them
    \* logical device construction
    dc_families,        \* the queue families of the selected physical device
    dc_result,          \* what the construction made: create infos and role queues
    \* create_texture, step by step
    ct_pc,              \* per thread, its position in create_texture
    ct_calls,           \* per thread, the number of create_texture calls it has started
    ct_log,             \* per thread, the API steps of its current call
    ct_trace,           \* the API steps of all calls, in the order they happened
    ct_failed,          \* per thread, the step at which its call panicked, or "none"
    ct_result,          \* per thread, the texture its call returned, or None
    ct_vma,             \* the content of the shared Mutex<Option<Allocator>>
    ct_lock,            \* the thread holding the allocator Mutex, or "free"
    ct_poisoned,        \* whether a thread panicked while holding the Mutex
    ct_device,          \* "alive", or "destroyed" once destroy_device was called
    ct_after_destroy,   \* history: per thread, whether its call began after destroy
    ct_stale_use        \* history: an API step ran without allocator or device

resolveVars == <<qf_properties, qf_result>>
selectVars  == <<physical_devices, sel_result, candidates, overflow_checks, rated>>
submitVars  == <<queue_family_indices, queue_lock, pc, op, calls, call_log,
                 fence_signaled, hw_queue, completed, fence_uses, fence_overlap>>
lifeVars    == <<shader_state, texture_state, handle_state, destruction_queue,
                 in_flight, work_count, freed_in_flight, last_call, vma, alive,
                 destroy_pc, teardown>>
textureVars == <<tex_request, tex_built, tex_pair, tex_cmp>>
constructVars == <<dc_families, dc_result>>
createVars == <<ct_pc, ct_calls, ct_log, ct_trace, ct_failed, ct_result, ct_vma,
                ct_lock, ct_poisoned, ct_device, ct_after_destroy, ct_stale_use>>
vars == <<qf_properties, qf_result, physical_devices, sel_result,
          candidates, overflow_checks, rated,
          queue_family_indices, queue_lock, pc, op, calls, call_log,
          fence_signaled, hw_queue, completed, fence_uses, fence_overlap,
          shader_state, texture_state, handle_state, destruction_queue,
          in_flight, work_count, freed_in_flight, last_call, vma, alive,
          destroy_pc, teardown,
          tex_request, tex_built, tex_pair, tex_cmp,
          dc_families, dc_result,
          ct_pc, ct_calls, ct_log, ct_trace, ct_failed, ct_result, ct_vma,
          ct_lock, ct_poisoned, ct_device, ct_after_destroy, ct_stale_use>>

(***************************************************************************)
(* Option<T>: None is the empty sequence, Some(x) the one-element one.     *)
(***************************************************************************)
None == <<>>
Some(x) == <<x>>
IsSome(o) == o # <<>>
Unwrap(o) == o[1]

(***************************************************************************)
(* Queue family resolver                                                   *)
(***************************************************************************)
MaxFamilies == 3

QueueFlagBits == {"GRAPHICS", "COMPUTE", "TRANSFER"}

\* The three outcomes of get_physical_device_surface_support.
SurfaceSupportResults == {"OkTrue", "OkFalse", "Err"}

QueueFamilyProperties ==
    [queue_flags : SUBSET QueueFlagBits, surface_support : SurfaceSupportResults]

SeqsUpTo(S, n) == UNION {[1..k -> S] : k \in 0..n}

\* queue_flags.contains(GRAPHICS | COMPUTE)
HasGraphicsAndCompute(prop) == {"GRAPHICS", "COMPUTE"} \subseteq prop.queue_flags

\* queue_flags.contains(COMPUTE)
HasCompute(prop) == "COMPUTE" \in prop.queue_flags

SurfaceSupportUnwrapTrue(prop) == prop.surface_support # "OkFalse"

\* get_physical_device_surface_support(dev, i, surface).unwrap_or(false)
SurfaceSupport(prop) == prop.surface_support = "OkTrue"

\* graphics_family after the iteration for family i
AssignGraphics(prop, i, graphics_family) ==
    IF HasGraphicsAndCompute(prop) THEN Some(i) ELSE graphics_family

AssignComputeKeepCombined(prop, i, compute_family, graphics_family) ==
    IF HasGraphicsAndCompute(prop) THEN Some(i)
    ELSE IF HasCompute(prop) /\ ~IsSome(graphics_family) THEN Some(i)
    ELSE compute_family

\* compute_family after the iteration for family i
AssignCompute(prop, i, compute_family, graphics_family) ==
    IF HasGraphicsAndCompute(prop) THEN Some(i)
    ELSE IF HasCompute(prop) THEN Some(i)
    ELSE compute_family

AssignPresentFirstWins(prop, i, present_family) ==
    IF SurfaceSupport(prop) /\ ~IsSome(present_family) THEN Some(i)
    ELSE present_family

\* present_family after the iteration for family i
AssignPresent(prop, i, present_family) ==
    IF SurfaceSupport(prop) THEN Some(i) ELSE present_family

RECURSIVE FindLoop(_, _, _, _, _)
\* The for loop over properties.iter().enumerate(), from family i on.
FindLoop(properties, i, graphics_family, compute_family, present_family) ==
    IF i >= Len(properties) THEN None
    ELSE LET prop == properties[i + 1]
             g == AssignGraphics(prop, i, graphics_family)
             c == AssignCompute(prop, i, compute_family, graphics_family)
             p == AssignPresent(prop, i, present_family)
         IN IF IsSome(g) /\ IsSome(c) /\ IsSome(p)
            THEN Some([graphics_family |-> Unwrap(g),
                       compute_family  |-> Unwrap(c),
                       present_family  |-> Unwrap(p)])
            ELSE FindLoop(properties, i + 1, g, c, p)

find_queue_families(properties) == FindLoop(properties, 0, None, None, None)

ResolveInit ==
    /\ qf_properties \in SeqsUpTo(QueueFamilyProperties, MaxFamilies)
    /\ qf_result = <<"pending">>

Resolve ==
    /\ qf_result = <<"pending">>
    /\ qf_result' = <<"returned", find_queue_families(qf_properties)>>
    /\ UNCHANGED <<qf_properties, textureVars, constructVars, createVars, selectVars, submitVars, lifeVars>>

(***************************************************************************)
(* Physical device selection                                               *)
(***************************************************************************)
MaxDevices == 3
MaxScore == 3

\* A u32 as two 16-bit limbs, so that every value of the type is
\* representable: [hi, lo] stands for hi * 65536 + lo.
ToU32(n) == [hi |-> n \div 65536, lo |-> n % 65536]
U32Gt(a, b) == a.hi > b.hi \/ (a.hi = b.hi /\ a.lo > b.lo)
U32Ge(a, b) == a = b \/ U32Gt(a, b)

\* a + b on u32: the wrapped sum and whether the addition overflowed.
U32Add(a, b) ==
    LET lo == a.lo + b.lo
        hi == a.hi + b.hi + (lo \div 65536)
    IN [value |-> [hi |-> hi % 65536, lo |-> lo % 65536],
        overflow |-> hi >= 65536]

\* A device as the selection loop sees it: its position in the enumeration
\* is its handle, score is what rate_device_suitability returned for it.
PhysicalDevice == [score : {ToU32(n) : n \in 0..MaxScore}]

BetterScoreNotStrict(score, best_score) == U32Ge(score, best_score)

\* score > best_score
BetterScore(score, best_score) == U32Gt(score, best_score)

RECURSIVE SelectLoop(_, _, _, _)
\* The for loop over physical_devices, from position k on.
SelectLoop(devices, k, best_score, best_dev) ==
    IF k > Len(devices) THEN best_dev
    ELSE LET score == devices[k].score
         IN IF BetterScore(score, best_score)
            THEN SelectLoop(devices, k + 1, score, Some(k))
            ELSE SelectLoop(devices, k + 1, best_score, best_dev)

select_physical_device(devices) ==
    IF Len(devices) = 0 THEN <<"panic", "No GPUs on this machine support Vulkan!">>
    ELSE LET best_dev == SelectLoop(devices, 1, ToU32(0), None)
         IN IF IsSome(best_dev) THEN <<"selected", Unwrap(best_dev)>>
            ELSE <<"panic", "No GPUs on this machine are supported!">>

RateIdle == candidates = <<>> /\ overflow_checks = FALSE /\ rated = <<>>

SelectInit ==
    /\ physical_devices \in SeqsUpTo(PhysicalDevice, MaxDevices)
    /\ sel_result = <<"pending">>
    /\ RateIdle

Select ==
    /\ sel_result = <<"pending">>
    /\ sel_result' = select_physical_device(physical_devices)
    /\ UNCHANGED <<physical_devices, candidates, overflow_checks, rated>>
    /\ UNCHANGED <<textureVars, constructVars, createVars, resolveVars, submitVars, lifeVars>>

(***************************************************************************)
(* Device rating                                                           *)
(*                                                                         *)
(* The selection loop again, now with the score of each device computed    *)
(* by rate_device_suitability from what the driver reports for it.         *)
(***************************************************************************)
MaxCandidates == 2

DeviceTypes == {"DISCRETE_GPU", "INTEGRATED_GPU", "CPU"}

\* The queue families a candidate may report: one family that does
\* everything, one that cannot present, one without graphics.
CandidateFamilies ==
    { <<[queue_flags |-> {"GRAPHICS", "COMPUTE"}, surface_support |-> "OkTrue"]>>,
      <<[queue_flags |-> {"GRAPHICS", "COMPUTE"}, surface_support |-> "OkFalse"]>>,
      <<[queue_flags |-> {"COMPUTE", "TRANSFER"}, surface_support |-> "OkTrue"]>> }

\* The results of the three surface queries; at most one of them fails.
SwapchainQueries ==
    { q \in [capabilities : {"Ok", "Err"}, surface_formats : {"Ok", "Err"},
             present_modes : {"Ok", "Err"}] :
        Cardinality({f \in {"capabilities", "surface_formats", "present_modes"} :
                        q[f] = "Err"}) <= 1 }

\* limits.max_image_dimension2_d: a usual value, 16384, and one near the end
\* of the u32 range, 4294966296 (2^32 - 1000).
ImageDimensions == { [hi |-> 0, lo |-> 16384], [hi |-> 65535, lo |-> 64536] }

AllOk(swapchain) ==
    \A f \in {"capabilities", "surface_formats", "present_modes"} : swapchain[f] = "Ok"

\* A candidate has at most one defect: in its families or in one query.
CandidateDevice ==
    { dev \in [queue_families : CandidateFamilies, swapchain : SwapchainQueries,
               device_type : DeviceTypes, max_image_dimension2_d : ImageDimensions] :
        IsSome(find_queue_families(dev.queue_families)) \/ AllOk(dev.swapchain) }

\* Some(details) when the three queries are Ok, None otherwise
query_swapchain_support_physical_device(dev) ==
    IF /\ dev.swapchain.capabilities = "Ok"
       /\ dev.swapchain.surface_formats = "Ok"
       /\ dev.swapchain.present_modes = "Ok"
    THEN Some(dev.swapchain)
    ELSE None

\* the points of properties.device_type
DeviceTypeScore(device_type) ==
    IF device_type = "DISCRETE_GPU" THEN ToU32(1000)
    ELSE IF device_type = "INTEGRATED_GPU" THEN ToU32(1)
    ELSE ToU32(0)

\* score += rhs: the sum, or the panic of a build with overflow checks
AddAssign(score, rhs) ==
    IF score[1] = "panic" THEN score
    ELSE LET sum == U32Add(score[2], rhs)
         IN IF sum.overflow /\ overflow_checks
            THEN <<"panic", "attempt to add with overflow">>
            ELSE <<"ok", sum.value>>

SuitableWithoutSwapchain(dev) == IsSome(find_queue_families(dev.queue_families))

\* the (Some(_), Some(swapchain_details)) arm of the match
Suitable(dev) ==
    /\ IsSome(find_queue_families(dev.queue_families))
    /\ IsSome(query_swapchain_support_physical_device(dev))

rate_device_suitability(dev) ==
    IF Suitable(dev)
    THEN AddAssign(AddAssign(<<"ok", ToU32(0)>>, DeviceTypeScore(dev.device_type)),
                   dev.max_image_dimension2_d)
    ELSE <<"ok", ToU32(0)>>

RECURSIVE RateLoop(_, _)
\* The calls of rate_device_suitability the selection loop makes, in order,
\* up to the first one that panics.
RateLoop(devices, k) ==
    IF k > Len(devices) THEN <<>>
    ELSE LET score == rate_device_suitability(devices[k])
         IN IF score[1] = "panic" THEN <<score>>
            ELSE <<score>> \o RateLoop(devices, k + 1)

RateInit ==
    /\ candidates \in SeqsUpTo(CandidateDevice, MaxCandidates)
    /\ overflow_checks \in BOOLEAN
    /\ rated = <<>>
    /\ physical_devices = <<>>
    /\ sel_result = <<"pending">>

\* The selection of VulkanDevice::new on the candidates.
RateAndSelect ==
    /\ sel_result = <<"pending">>
    /\ LET scores == RateLoop(candidates, 1)
           panicked == \E k \in 1..Len(scores) : scores[k][1] = "panic"
           devices == [k \in 1..Len(scores) |-> [score |-> scores[k][2]]]
       IN /\ rated' = scores
          /\ physical_devices' = IF panicked THEN <<>> ELSE devices
          /\ sel_result' = IF Len(candidates) = 0 THEN select_physical_device(<<>>)
                           ELSE IF panicked THEN scores[Len(scores)]
                           ELSE select_physical_device(devices)
    /\ UNCHANGED <<candidates, overflow_checks>>
    /\ UNCHANGED <<textureVars, constructVars, createVars, resolveVars, submitVars, lifeVars>>

(***************************************************************************)
(* Queue submission and the upload context                                 *)
(*                                                                         *)
(* Threads call into one VulkanDevice (or clones of it, which share the    *)
(* three Arc<Mutex<vk::Queue>>).  Each thread owns an upload context, with *)
(* the context's fence; the caller's fence, which the threads pass to      *)
(* submit and to the device's queue submits, is one fence of the           *)
(* application.  The GPU finishes the submissions of a physical queue in   *)
(* submission order and then signals their fence.                          *)
(***************************************************************************)
MaxCalls == 1

Threads == {"t1", "t2"}
Roles == {"graphics", "compute", "present"}

\* The family layouts of the devices the model runs on.
DeviceLayouts ==
    { << [queue_flags |-> {"GRAPHICS", "COMPUTE"}, surface_support |-> "OkTrue"] >>,
      << [queue_flags |-> {"GRAPHICS", "COMPUTE"}, surface_support |-> "OkFalse"],
         [queue_flags |-> {"COMPUTE"}, surface_support |-> "OkTrue"] >> }

\* device.get_device_queue(family, 0): the queue's identity
get_device_queue(family, index) == <<family, index>>

\* The vk::Queue inside the Mutex of each role.
QueueOfRole(role) ==
    CASE role = "graphics" -> get_device_queue(queue_family_indices.graphics_family, 0)
      [] role = "compute"  -> get_device_queue(queue_family_indices.compute_family, 0)
      [] role = "present"  -> get_device_queue(queue_family_indices.present_family, 0)

PhysicalQueues == {QueueOfRole(r) : r \in Roles}

UploadOps == {"wait_submit", "submit_none", "submit_some"}
DeviceOps == {"graphics_queue_submit", "compute_queue_submit"}
Ops == UploadOps \cup DeviceOps

ContextFence(t) == <<"context", t>>
CallerFence(t) == <<"caller", "application">>
Fences == {ContextFence(t) : t \in Threads} \cup {CallerFence(t) : t \in Threads}

FenceOfContextOnly(t) == ContextFence(t)

\* The fence handed to the queue submit: fence.unwrap_or(&self.fence) in
\* submit, &self.fence in wait_submit, the caller's fence otherwise.
FenceOf(t) ==
    IF op[t] \in {"wait_submit", "submit_none"} THEN ContextFence(t) ELSE CallerFence(t)

\* The Mutex a call locks: graphics_queue, or compute_queue in
\* compute_queue_submit.
LockOf(t) ==
    IF op[t] = "compute_queue_submit" THEN "compute" ELSE "graphics"

SubmissionOf(t) == [id |-> <<t, calls[t]>>, fence |-> FenceOf(t)]

SubmitInit ==
    /\ queue_family_indices \in {Unwrap(find_queue_families(p)) : p \in DeviceLayouts}
    /\ queue_lock = [r \in Roles |-> "free"]
    /\ pc = [t \in Threads |-> "idle"]
    /\ op = [t \in Threads |-> "none"]
    /\ calls = [t \in Threads |-> 0]
    /\ call_log = [t \in Threads |-> <<>>]
    /\ fence_signaled = [f \in Fences |-> FALSE]
    /\ hw_queue = [q \in PhysicalQueues |-> <<>>]
    /\ completed = {}
    /\ fence_uses = {}
    /\ fence_overlap = {}

Step(t, from, to, what) ==
    /\ pc[t] = from
    /\ pc' = [pc EXCEPT ![t] = to]
    /\ call_log' = [call_log EXCEPT ![t] = Append(@, what)]

\* A thread starts one of the calls.
Call(t, o) ==
    /\ pc[t] = "idle"
    /\ calls[t] < MaxCalls
    /\ op' = [op EXCEPT ![t] = o]
    /\ calls' = [calls EXCEPT ![t] = @ + 1]
    /\ pc' = [pc EXCEPT ![t] = IF o \in UploadOps THEN "begin" ELSE "reset"]
    /\ call_log' = [call_log EXCEPT ![t] = <<>>]
    /\ UNCHANGED <<textureVars, constructVars, createVars, resolveVars, selectVars, lifeVars, fence_uses, fence_overlap,
                   queue_family_indices, queue_lock,
                   fence_signaled, hw_queue, completed>>

\* self.command_pool.begin_command_buffer(&self.device)
BeginCommandBuffer(t) ==
    /\ Step(t, "begin", "record", "begin_command_buffer")
    /\ UNCHANGED <<textureVars, constructVars, createVars, resolveVars, selectVars, lifeVars, fence_uses, fence_overlap,
                   queue_family_indices, queue_lock,
                   op, calls, fence_signaled,
                   hw_queue, completed>>

\* f(&self.device.raw, cmd)
Record(t) ==
    /\ Step(t, "record", "end", "record")
    /\ UNCHANGED <<textureVars, constructVars, createVars, resolveVars, selectVars, lifeVars, fence_uses, fence_overlap,
                   queue_family_indices, queue_lock,
                   op, calls, fence_signaled,
                   hw_queue, completed>>

\* self.command_pool.end_command_buffer(&self.device, cmd)
EndCommandBuffer(t) ==
    /\ Step(t, "end", "reset", "end_command_buffer")
    /\ UNCHANGED <<textureVars, constructVars, createVars, resolveVars, selectVars, lifeVars, fence_uses, fence_overlap,
                   queue_family_indices, queue_lock,
                   op, calls, fence_signaled,
                   hw_queue, completed>>

\* The calls that have reset fence f and whose submission the GPU has not
\* finished.
UnresolvedUses(f) == {u.id : u \in {x \in fence_uses : x.fence = f /\ x.id \notin completed}}

\* fence.reset(self)
FenceReset(t) ==
    /\ Step(t, "reset", "lock", "fence_reset")
    /\ fence_signaled' = [fence_signaled EXCEPT ![FenceOf(t)] = FALSE]
    /\ fence_uses' = fence_uses \cup {[id |-> <<t, calls[t]>>, fence |-> FenceOf(t)]}
    /\ fence_overlap' =
          IF UnresolvedUses(FenceOf(t)) = {} THEN fence_overlap
          ELSE fence_overlap \cup UnresolvedUses(FenceOf(t)) \cup {<<t, calls[t]>>}
    /\ UNCHANGED <<textureVars, constructVars, createVars, resolveVars, selectVars, lifeVars,
                   queue_family_indices, queue_lock,
                   op, calls, hw_queue, completed>>

\* self.graphics_queue.lock().unwrap() / self.compute_queue.lock().unwrap()
QueueLock(t) ==
    /\ queue_lock[LockOf(t)] = "free"
    /\ Step(t, "lock", "critical", "queue_lock")
    /\ queue_lock' = [queue_lock EXCEPT ![LockOf(t)] = t]
    /\ UNCHANGED <<textureVars, constructVars, createVars, resolveVars, selectVars, lifeVars, fence_uses, fence_overlap,
                   queue_family_indices, op, calls,
                   fence_signaled, hw_queue, completed>>

QueueSubmitThenReset(t) ==
    /\ pc[t] = "critical"
    /\ pc' = [pc EXCEPT ![t] = IF op[t] \in UploadOps THEN "recycle" ELSE "returned"]
    /\ call_log' = [call_log EXCEPT ![t] = @ \o <<"queue_submit", "fence_reset">>]
    /\ hw_queue' = [hw_queue EXCEPT ![QueueOfRole(LockOf(t))] = Append(@, SubmissionOf(t))]
    /\ queue_lock' = [queue_lock EXCEPT ![LockOf(t)] = "free"]
    /\ fence_signaled' = [fence_signaled EXCEPT ![FenceOf(t)] = FALSE]
    /\ UNCHANGED <<textureVars, constructVars, createVars, resolveVars, selectVars, lifeVars, fence_uses, fence_overlap,
                   queue_family_indices, op, calls, completed>>

\* self.raw.queue_submit(queue, &[submit_info], fence.get()), then the guard
\* is dropped at the end of the statement.
QueueSubmit(t) ==
    /\ Step(t, "critical", IF op[t] \in UploadOps THEN "recycle" ELSE "returned",
            "queue_submit")
    /\ hw_queue' = [hw_queue EXCEPT ![QueueOfRole(LockOf(t))] = Append(@, SubmissionOf(t))]
    /\ queue_lock' = [queue_lock EXCEPT ![LockOf(t)] = "free"]
    /\ UNCHANGED <<textureVars, constructVars, createVars, resolveVars, selectVars, lifeVars, fence_uses, fence_overlap,
                   queue_family_indices, op, calls,
                   fence_signaled, completed>>

\* self.command_pool.recycle(&self.device), after which the call returns
Recycle(t) ==
    /\ Step(t, "recycle", "returned", "recycle")
    /\ UNCHANGED <<textureVars, constructVars, createVars, resolveVars, selectVars, lifeVars, fence_uses, fence_overlap,
                   queue_family_indices, queue_lock,
                   op, calls, fence_signaled,
                   hw_queue, completed>>

\* The caller goes on after the call has returned.
Continue(t) ==
    /\ pc[t] = "returned"
    /\ pc' = [pc EXCEPT ![t] = "idle"]
    /\ UNCHANGED <<textureVars, constructVars, createVars, resolveVars, selectVars, lifeVars, fence_uses, fence_overlap,
                   queue_family_indices, queue_lock,
                   op, calls, call_log,
                   fence_signaled, hw_queue, completed>>

\* The GPU finishes the oldest submission of a queue and signals its fence.
GpuComplete(q) ==
    /\ hw_queue[q] # <<>>
    /\ hw_queue' = [hw_queue EXCEPT ![q] = Tail(@)]
    /\ fence_signaled' = [fence_signaled EXCEPT ![Head(hw_queue[q]).fence] = TRUE]
    /\ completed' = completed \cup {Head(hw_queue[q]).id}
    /\ UNCHANGED <<textureVars, constructVars, createVars, resolveVars, selectVars, lifeVars, fence_uses, fence_overlap,
                   queue_family_indices, queue_lock,
                   pc, op, calls, call_log>>

SubmitNext ==
    \/ \E t \in Threads, o \in Ops : Call(t, o)
    \/ \E t \in Threads : BeginCommandBuffer(t)
    \/ \E t \in Threads : Record(t)
    \/ \E t \in Threads : EndCommandBuffer(t)
    \/ \E t \in Threads : FenceReset(t)
    \/ \E t \in Threads : QueueLock(t)
    \/ \E t \in Threads : QueueSubmit(t)
    \/ \E t \in Threads : Recycle(t)
    \/ \E t \in Threads : Continue(t)
    \/ \E q \in PhysicalQueues : GpuComplete(q)

(***************************************************************************)
(* Resource destruction and device teardown                                *)
(*                                                                         *)
(* One CPU thread creates shaders and textures, submits GPU work that uses *)
(* them, destroys them and finally destroys the device; the GPU finishes   *)
(* submitted work at its own pace.                                         *)
(***************************************************************************)
MaxWork == 2

Shaders == {"shader1"}
Textures == {"texture1", "texture2"}

ShaderModule(s) == <<"ShaderModule", s>>
Image(t) == <<"Image", t>>
ImageView(t) == <<"ImageView", t>>
Sampler(t) == <<"Sampler", t>>
Allocation(t) == <<"Allocation", t>>

ShaderHandles(s) == {ShaderModule(s)}
TextureHandles(t) == {Image(t), ImageView(t), Sampler(t), Allocation(t)}
Handles == UNION ({ShaderHandles(s) : s \in Shaders} \cup {TextureHandles(t) : t \in Textures})

\* The handles of the resources the caller holds.
LiveHandles ==
    UNION ({ShaderHandles(s) : s \in {x \in Shaders : shader_state[x] = "live"}}
           \cup {TextureHandles(t) : t \in {x \in Textures : texture_state[x] = "live"}})

\* The handles that unfinished GPU work uses.
InFlightHandles == UNION {w.uses : w \in in_flight}

\* VulkanDestructor::{Image, ImageView, Sampler, ShaderModule, Allocation}
VulkanDestructor(kind, handle) == [kind |-> kind, handle |-> handle]

ApiCall(call, arg) == [call |-> call, arg |-> arg]
CallRecord(name, arg, api) == [op |-> name, arg |-> arg, api |-> api]

\* An API destroy or allocator free of the handles hs, now.
FreeNow(hs) ==
    /\ handle_state' = [h \in Handles |-> IF h \in hs THEN "freed" ELSE handle_state[h]]
    /\ freed_in_flight' = freed_in_flight \cup (hs \cap InFlightHandles)

LifeInit ==
    /\ shader_state = [s \in Shaders |-> "none"]
    /\ texture_state = [t \in Textures |-> "none"]
    /\ handle_state = [h \in Handles |-> "none"]
    /\ destruction_queue = <<>>
    /\ in_flight = {}
    /\ work_count = 0
    /\ freed_in_flight = {}
    /\ last_call = CallRecord("new", "device", <<>>)
    /\ vma = Some("allocator")
    /\ alive = {"device", "surface", "debug_messenger", "instance"}
    /\ destroy_pc = "none"
    /\ teardown = <<>>

\* The CPU thread is not inside VulkanDevice::destroy and the device exists.
DeviceInUse == destroy_pc = "none"

\* create_shader: create_shader_module, then the VulkanShader is returned.
create_shader(s) ==
    /\ DeviceInUse
    /\ shader_state[s] = "none"
    /\ shader_state' = [shader_state EXCEPT ![s] = "live"]
    /\ handle_state' = [handle_state EXCEPT ![ShaderModule(s)] = "alive"]
    /\ last_call' = CallRecord("create_shader", s,
                               <<ApiCall("create_shader_module", ShaderModule(s))>>)
    /\ UNCHANGED <<textureVars, constructVars, createVars, resolveVars, selectVars, submitVars, texture_state, destruction_queue,
                   in_flight, work_count, freed_in_flight, vma, alive, destroy_pc,
                   teardown>>

\* destroy_shader: self.raw.destroy_shader_module(shader.module, None)
destroy_shader(s) ==
    /\ DeviceInUse
    /\ shader_state[s] = "live"
    /\ shader_state' = [shader_state EXCEPT ![s] = "destroyed"]
    /\ FreeNow({ShaderModule(s)})
    /\ last_call' = CallRecord("destroy_shader", s,
                               <<ApiCall("destroy_shader_module", ShaderModule(s))>>)
    /\ UNCHANGED <<textureVars, constructVars, createVars, resolveVars, selectVars, submitVars, texture_state, destruction_queue,
                   in_flight, work_count, vma, alive, destroy_pc, teardown>>

\* create_texture, when every API call succeeds: the image, its allocation,
\* the sampler and the view exist and the VulkanTexture is returned.
create_texture(t) ==
    /\ DeviceInUse
    /\ IsSome(vma)
    /\ texture_state[t] = "none"
    /\ texture_state' = [texture_state EXCEPT ![t] = "live"]
    /\ handle_state' = [h \in Handles |->
                           IF h \in TextureHandles(t) THEN "alive" ELSE handle_state[h]]
    /\ last_call' = CallRecord("create_texture", t,
                               <<ApiCall("create_image", Image(t)),
                                 ApiCall("get_image_memory_requirements", Image(t)),
                                 ApiCall("allocate", Allocation(t)),
                                 ApiCall("bind_image_memory", Image(t)),
                                 ApiCall("create_sampler", Sampler(t)),
                                 ApiCall("create_image_view", ImageView(t))>>)
    /\ UNCHANGED <<textureVars, constructVars, createVars, resolveVars, selectVars, submitVars, shader_state, destruction_queue,
                   in_flight, work_count, freed_in_flight, vma, alive, destroy_pc,
                   teardown>>

TextureDestructorsWithoutAllocation(t) ==
    << VulkanDestructor("Image", Image(t)),
       VulkanDestructor("ImageView", ImageView(t)),
       VulkanDestructor("Sampler", Sampler(t)) >>

\* The slice destroy_texture passes to queue_destruction.
TextureDestructors(t) ==
    << VulkanDestructor("Image", Image(t)),
       VulkanDestructor("ImageView", ImageView(t)),
       VulkanDestructor("Sampler", Sampler(t)),
       VulkanDestructor("Allocation", Allocation(t)) >>

\* queue_destruction(&mut [..]): the requests join the queue as one batch.
queue_destruction(batch) ==
    destruction_queue' = Append(destruction_queue, batch)

\* destroy_texture: one queue_destruction call with the four destructors.
destroy_texture(t) ==
    /\ DeviceInUse
    /\ texture_state[t] = "live"
    /\ texture_state' = [texture_state EXCEPT ![t] = "destroyed"]
    /\ queue_destruction(TextureDestructors(t))
    /\ last_call' = CallRecord("destroy_texture", t,
                               <<ApiCall("queue_destruction", TextureDestructors(t))>>)
    /\ UNCHANGED <<textureVars, constructVars, createVars, resolveVars, selectVars, submitVars, shader_state, handle_state,
                   in_flight, work_count, freed_in_flight, vma, alive, destroy_pc,
                   teardown>>

\* The owner of the queue frees its oldest batch, after a device idle wait
\* has shown that no GPU work is left.
FreeBatch ==
    /\ DeviceInUse
    /\ destruction_queue # <<>>
    /\ in_flight = {}
    /\ IsSome(vma)
    /\ FreeNow({Head(destruction_queue)[k].handle : k \in 1..Len(Head(destruction_queue))})
    /\ destruction_queue' = Tail(destruction_queue)
    /\ last_call' = CallRecord("free_batch", "queue", <<>>)
    /\ UNCHANGED <<textureVars, constructVars, createVars, resolveVars, selectVars, submitVars, shader_state, texture_state,
                   in_flight, work_count, vma, alive, destroy_pc, teardown>>

\* graphics_queue_submit of a command buffer that uses the handles of some
\* of the resources the caller holds.
SubmitWork(uses) ==
    /\ DeviceInUse
    /\ work_count < MaxWork
    /\ uses # {}
    /\ uses \subseteq LiveHandles
    /\ work_count' = work_count + 1
    /\ in_flight' = in_flight \cup {[id |-> work_count + 1, uses |-> uses]}
    /\ last_call' = CallRecord("graphics_queue_submit", "command_buffer", <<>>)
    /\ UNCHANGED <<textureVars, constructVars, createVars, resolveVars, selectVars, submitVars, shader_state, texture_state,
                   handle_state, destruction_queue, freed_in_flight, vma, alive,
                   destroy_pc, teardown>>

\* The resources a command buffer may use: all handles of one resource.
ResourceUses ==
    {ShaderHandles(s) : s \in Shaders} \cup {TextureHandles(t) : t \in Textures}

\* The GPU finishes a piece of work.
GpuFinish(w) ==
    /\ w \in in_flight
    /\ in_flight' = in_flight \ {w}
    /\ UNCHANGED <<textureVars, constructVars, createVars, resolveVars, selectVars, submitVars, shader_state, texture_state,
                   handle_state, destruction_queue, work_count, freed_in_flight,
                   last_call, vma, alive, destroy_pc, teardown>>

TeardownStep(from, to, what) ==
    /\ destroy_pc = from
    /\ destroy_pc' = to
    /\ teardown' = Append(teardown, what)

\* VulkanDevice::destroy is entered: self.wait_idle() is called.
DestroyEnter ==
    /\ destroy_pc = "none"
    /\ destroy_pc' = "wait_idle"
    /\ last_call' = CallRecord("destroy", "device", <<>>)
    /\ UNCHANGED <<textureVars, constructVars, createVars, resolveVars, selectVars, submitVars, shader_state, texture_state,
                   handle_state, destruction_queue, in_flight, work_count,
                   freed_in_flight, vma, alive, teardown>>

\* device_wait_idle returns Ok once the GPU has no work left.
DestroyWaitIdle ==
    /\ in_flight = {}
    /\ TeardownStep("wait_idle", "drop_allocator", "wait_idle")
    /\ UNCHANGED <<textureVars, constructVars, createVars, resolveVars, selectVars, submitVars, shader_state, texture_state,
                   handle_state, destruction_queue, in_flight, work_count,
                   freed_in_flight, last_call, vma, alive>>

\* device_wait_idle returns an error: expect("Wait idle failed!") panics.
DestroyWaitIdleFails ==
    /\ destroy_pc = "wait_idle"
    /\ destroy_pc' = "panicked"
    /\ UNCHANGED <<textureVars, constructVars, createVars, resolveVars, selectVars, submitVars, shader_state, texture_state,
                   handle_state, destruction_queue, in_flight, work_count,
                   freed_in_flight, last_call, vma, alive, teardown>>

DestroyDropAllocatorSkipped ==
    /\ destroy_pc = "drop_allocator"
    /\ destroy_pc' = "destroy_device"
    /\ teardown' = teardown
    /\ UNCHANGED <<textureVars, constructVars, createVars, resolveVars, selectVars, submitVars, shader_state, texture_state,
                   handle_state, destruction_queue, in_flight, work_count,
                   freed_in_flight, last_call, vma, alive>>

\* std::mem::drop(self.vma.lock().unwrap().take())
DestroyDropAllocator ==
    /\ TeardownStep("drop_allocator", "destroy_device", "drop_allocator")
    /\ vma' = None
    /\ UNCHANGED <<textureVars, constructVars, createVars, resolveVars, selectVars, submitVars, shader_state, texture_state,
                   handle_state, destruction_queue, in_flight, work_count,
                   freed_in_flight, last_call, alive>>

DestroyObject(from, to, what, object) ==
    /\ TeardownStep(from, to, what)
    /\ alive' = alive \ {object}
    /\ UNCHANGED <<textureVars, constructVars, createVars, resolveVars, selectVars, submitVars, shader_state, texture_state,
                   handle_state, destruction_queue, in_flight, work_count,
                   freed_in_flight, last_call, vma>>

\* self.raw.destroy_device(None)
DestroyDevice ==
    DestroyObject("destroy_device", "destroy_surface", "destroy_device", "device")

\* self.surface_loader.destroy_surface(self.surface, None)
DestroySurface ==
    DestroyObject("destroy_surface", "destroy_debug_utils_messenger", "destroy_surface",
                  "surface")

\* self.debug_utils_loader.destroy_debug_utils_messenger(self.debug_callback, None)
DestroyDebugMessenger ==
    DestroyObject("destroy_debug_utils_messenger", "destroy_instance",
                  "destroy_debug_utils_messenger", "debug_messenger")

\* self.instance.destroy_instance(None), after which destroy returns
DestroyInstance ==
    DestroyObject("destroy_instance", "done", "destroy_instance", "instance")

LifeNext ==
    \/ \E s \in Shaders : create_shader(s)
    \/ \E s \in Shaders : destroy_shader(s)
    \/ \E t \in Textures : create_texture(t)
    \/ \E t \in Textures : destroy_texture(t)
    \/ FreeBatch
    \/ \E uses \in ResourceUses : SubmitWork(uses)
    \/ \E w \in in_flight : GpuFinish(w)
    \/ DestroyEnter
    \/ DestroyWaitIdle
    \/ DestroyWaitIdleFails
    \/ DestroyDropAllocator
    \/ DestroyDevice
    \/ DestroySurface
    \/ DestroyDebugMessenger
    \/ DestroyInstance

(***************************************************************************)
(* Specifications                                                          *)
(***************************************************************************)
(***************************************************************************)
(* Logical device construction                                             *)
(*                                                                         *)
(* The part of VulkanDevice::new between the selection of the physical     *)
(* device and the creation of the allocator: the queue create infos and    *)
(* the three role queues.                                                  *)
(***************************************************************************)
\* The kinds of queue family the selected device may have.
ConstructFamilies ==
    { [queue_flags |-> {"GRAPHICS", "COMPUTE"}, surface_support |-> "OkTrue"],
      [queue_flags |-> {"GRAPHICS", "COMPUTE"}, surface_support |-> "OkFalse"],
      [queue_flags |-> {"COMPUTE"}, surface_support |-> "OkTrue"],
      [queue_flags |-> {"COMPUTE"}, surface_support |-> "OkFalse"],
      [queue_flags |-> {"TRANSFER"}, surface_support |-> "OkTrue"] }

\* queue_indices: the HashSet of the three family indices
QueueIndices(indices) ==
    {indices.graphics_family, indices.compute_family, indices.present_family}

\* vk::DeviceQueueCreateInfo::builder().queue_family_index(*index)
\*     .queue_priorities(&queue_priorities)
DeviceQueueCreateInfo(index) ==
    [queue_family_index |-> index, queue_priorities |-> <<"1.0">>]

\* The orders in which a HashSet may iterate its elements.
IterationOrders(set) ==
    {order \in [1..Cardinality(set) -> set] :
        \A i, j \in 1..Cardinality(set) : order[i] = order[j] => i = j}

QueueCreateInfosPerRole(indices) ==
    { << DeviceQueueCreateInfo(indices.graphics_family),
         DeviceQueueCreateInfo(indices.compute_family),
         DeviceQueueCreateInfo(indices.present_family) >> }

\* queue_indices.iter().map(..).collect(): the vectors the build may produce
QueueCreateInfos(indices) ==
    { [k \in 1..Len(order) |-> DeviceQueueCreateInfo(order[k])] :
        order \in IterationOrders(QueueIndices(indices)) }

ConstructInit ==
    /\ dc_families \in {p \in SeqsUpTo(ConstructFamilies, MaxFamilies) :
                           IsSome(find_queue_families(p))}
    /\ dc_result = None

\* find_queue_families(physical_device).expect(..), the create infos,
\* create_device and the three get_device_queue calls.
CreateLogicalDevice ==
    /\ dc_result = None
    /\ LET indices == Unwrap(find_queue_families(dc_families))
       IN \E infos \in QueueCreateInfos(indices) :
            dc_result' =
              Some([queue_family_indices |-> indices,
                    queue_create_infos |-> infos,
                    graphics_queue |-> get_device_queue(indices.graphics_family, 0),
                    compute_queue |-> get_device_queue(indices.compute_family, 0),
                    present_queue |-> get_device_queue(indices.present_family, 0)])
    /\ UNCHANGED dc_families
    /\ UNCHANGED <<textureVars, createVars, resolveVars, selectVars, submitVars, lifeVars>>

(***************************************************************************)
(* Texture descriptions                                                    *)
(*                                                                         *)
(* What create_texture computes from its arguments: the usage flags, the   *)
(* image create info, the subresource range and the image view create      *)
(* info.  Flag sets are sets of flag names.                                *)
(***************************************************************************)
TextureUsageBits == {"ATTACHMENT", "SAMPLED", "TRANSFER_SRC", "TRANSFER_DST", "STORAGE"}

\* TextureFormat: the depth format, a colour format and a cubemap format.
TextureFormats == {"Depth", "RGBA8", "CubemapRGBA8"}

TextureSizes == {1, 2}

\* format.is_cubemap()
is_cubemap(format) == format = "CubemapRGBA8"

\* format.to_vk(self)
to_vk(format) == <<"vk::Format", format>>

UsageFlagsAlwaysColor(usage, format) ==
    (IF "ATTACHMENT" \in usage THEN {"COLOR_ATTACHMENT"} ELSE {})
        \cup (usage \cap {"SAMPLED", "TRANSFER_SRC", "TRANSFER_DST", "STORAGE"})

\* usage_flags after the five ifs on usage.contains(..)
UsageFlags(usage, format) ==
    (IF "ATTACHMENT" \in usage
     THEN IF format = "Depth" THEN {"DEPTH_STENCIL_ATTACHMENT"} ELSE {"COLOR_ATTACHMENT"}
     ELSE {})
        \cup (IF "SAMPLED" \in usage THEN {"SAMPLED"} ELSE {})
        \cup (IF "TRANSFER_SRC" \in usage THEN {"TRANSFER_SRC"} ELSE {})
        \cup (IF "TRANSFER_DST" \in usage THEN {"TRANSFER_DST"} ELSE {})
        \cup (IF "STORAGE" \in usage THEN {"STORAGE"} ELSE {})

\* vk::ImageCreateInfo::builder()...
ImageCreateInfo(width, height, format, usage) ==
    [flags |-> IF is_cubemap(format) THEN {"CUBE_COMPATIBLE"} ELSE {},
     image_type |-> "TYPE_2D",
     format |-> to_vk(format),
     extent |-> [width |-> width, height |-> height, depth |-> 1],
     mip_levels |-> 1,
     array_layers |-> IF is_cubemap(format) THEN 6 ELSE 1,
     samples |-> "TYPE_1",
     tiling |-> "OPTIMAL",
     usage |-> UsageFlags(usage, format),
     sharing_mode |-> "EXCLUSIVE",
     initial_layout |-> "UNDEFINED"]

ImageSubresourceRangeOneLayer(format) ==
    [aspect_mask |-> IF format = "Depth" THEN {"DEPTH"} ELSE {"COLOR"},
     base_mip_level |-> 0, level_count |-> 1, base_array_layer |-> 0, layer_count |-> 1]

\* vk::ImageSubresourceRange::builder()...
ImageSubresourceRange(format) ==
    [aspect_mask |-> IF format = "Depth" THEN {"DEPTH"} ELSE {"COLOR"},
     base_mip_level |-> 0,
     level_count |-> 1,
     base_array_layer |-> 0,
     layer_count |-> IF is_cubemap(format) THEN 6 ELSE 1]

\* vk::ImageViewCreateInfo::builder()...
ImageViewCreateInfo(image, format) ==
    [image |-> image,
     view_type |-> IF is_cubemap(format) THEN "CUBE" ELSE "TYPE_2D",
     format |-> to_vk(format),
     subresource_range |-> ImageSubresourceRange(format)]

TextureRequest ==
    [width : TextureSizes, height : TextureSizes, format : TextureFormats,
     usage : SUBSET TextureUsageBits]

TextureInit ==
    /\ tex_request \in TextureRequest
    /\ tex_built = None
    /\ tex_pair = None
    /\ tex_cmp = None

\* The create infos create_texture hands to the API and the texture it
\* returns, when no API call fails.
DescribeTexture ==
    /\ tex_built = None
    /\ LET r == tex_request
       IN tex_built' =
            Some([image_create_info |-> ImageCreateInfo(r.width, r.height, r.format, r.usage),
                  image_view_create_info |-> ImageViewCreateInfo("image", r.format),
                  texture |-> [width |-> r.width, height |-> r.height,
                               image |-> "image", sampler |-> "sampler",
                               image_view |-> "image_view",
                               subresource_range |-> ImageSubresourceRange(r.format),
                               allocation |-> "allocation",
                               format |-> r.format, usage |-> r.usage]])
    /\ UNCHANGED <<tex_request, tex_pair, tex_cmp>>
    /\ UNCHANGED <<constructVars, createVars, resolveVars, selectVars, submitVars, lifeVars>>

ResolveIdle == qf_properties = <<>> /\ qf_result = <<"idle">>
SelectIdle == physical_devices = <<>> /\ sel_result = <<"idle">> /\ RateIdle

SubmitIdle ==
    /\ queue_family_indices = None
    /\ queue_lock = None
    /\ pc = None
    /\ op = None
    /\ calls = None
    /\ call_log = None
    /\ fence_signaled = None
    /\ hw_queue = None
    /\ completed = {}
    /\ fence_uses = {}
    /\ fence_overlap = {}
\* The VulkanTexture values compared: two handles of each kind, and other
\* fields that vary independently of the handles.
VulkanTextureValues ==
    [width : TextureSizes, height : {1},
     image : {"image1", "image2"}, sampler : {"sampler1", "sampler2"},
     image_view : {"image_view1", "image_view2"},
     subresource_range : {ImageSubresourceRange("RGBA8")},
     allocation : {"allocation1", "allocation2"},
     format : {"RGBA8", "Depth"}, usage : {{"SAMPLED"}}]

VulkanTextureEqWithoutView(self, other) ==
    self.image = other.image /\ self.sampler = other.sampler

\* impl PartialEq for VulkanTexture: eq
VulkanTextureEq(self, other) ==
    /\ self.image = other.image
    /\ self.sampler = other.sampler
    /\ self.image_view = other.image_view

\* impl Hash for VulkanTexture: what hash writes to the hasher, in order
VulkanTextureHash(self) == <<self.image, self.sampler, self.image_view>>

TextureEqInit ==
    /\ tex_pair \in VulkanTextureValues \X VulkanTextureValues
    /\ tex_cmp = None
    /\ tex_request = None
    /\ tex_built = None

\* a == b, and a and b hashed
CompareTextures ==
    /\ tex_cmp = None
    /\ tex_pair # None
    /\ tex_cmp' = Some([eq |-> VulkanTextureEq(tex_pair[1], tex_pair[2]),
                        hash_self |-> VulkanTextureHash(tex_pair[1]),
                        hash_other |-> VulkanTextureHash(tex_pair[2])])
    /\ UNCHANGED <<tex_request, tex_built, tex_pair>>
    /\ UNCHANGED <<constructVars, createVars, resolveVars, selectVars, submitVars, lifeVars>>

(***************************************************************************)
(* create_texture, step by step                                            *)
(*                                                                         *)
(* Threads call create_texture on one VulkanDevice or on clones of it,     *)
(* which share the Arc<Mutex<Option<Allocator>>>.  Every API call with an  *)
(* .expect(..) may fail, which panics: the thread unwinds, the guard is    *)
(* dropped and the Mutex is poisoned.  (With panic = "abort" the process   *)
(* ends there, which is the same behaviour with every thread stopped.)     *)
(* A thread may also call destroy on its clone, once: the idle wait, the   *)
(* take of the allocator under the lock, then the destruction of the       *)
(* logical device and of the other handles.                                *)
(***************************************************************************)
MaxCreates == 1

\* The API calls of create_texture, in program order.
CreateSteps ==
    <<"create_image", "get_image_memory_requirements", "allocate",
      "bind_image_memory", "create_sampler", "create_image_view">>

\* The texture a call returns: fresh handles.
NewTexture(t, n) ==
    [image |-> <<"Image", t, n>>, sampler |-> <<"Sampler", t, n>>,
     image_view |-> <<"ImageView", t, n>>, allocation |-> <<"Allocation", t, n>>]

CreateInit ==
    /\ ct_pc = [t \in Threads |-> "idle"]
    /\ ct_calls = [t \in Threads |-> 0]
    /\ ct_log = [t \in Threads |-> <<>>]
    /\ ct_trace = <<>>
    /\ ct_failed = [t \in Threads |-> "none"]
    /\ ct_result = [t \in Threads |-> None]
    /\ ct_vma = Some("allocator")
    /\ ct_lock = "free"
    /\ ct_poisoned = FALSE
    /\ ct_device = "alive"
    /\ ct_after_destroy = [t \in Threads |-> FALSE]
    /\ ct_stale_use = FALSE

\* The thread panics at `what`: it unwinds, and a guard it holds is dropped
\* and poisons the Mutex.
Panic(t, what) ==
    /\ ct_pc' = [ct_pc EXCEPT ![t] = "panicked"]
    /\ ct_failed' = [ct_failed EXCEPT ![t] = what]
    /\ ct_lock' = IF ct_lock = t THEN "free" ELSE ct_lock
    /\ ct_poisoned' = (ct_poisoned \/ ct_lock = t)

ApiStepIgnoringFailure(t, from, to, ok) ==
    /\ ct_pc[t] = from
    /\ ct_log' = [ct_log EXCEPT ![t] = Append(@, from)]
    /\ ct_trace' = Append(ct_trace, <<t, ct_calls[t], from>>)
    /\ ct_pc' = [ct_pc EXCEPT ![t] = to]
    /\ ct_failed' = IF ok THEN ct_failed ELSE [ct_failed EXCEPT ![t] = from]
    /\ UNCHANGED <<ct_lock, ct_poisoned>>
    /\ ct_stale_use' = (ct_stale_use \/ ~IsSome(ct_vma) \/ ct_device = "destroyed")
    /\ UNCHANGED <<ct_calls, ct_result, ct_vma, ct_device, ct_after_destroy>>

\* One API call of create_texture: it is made, and either succeeds and the
\* call goes on to the next statement, or fails and .expect(..) panics.
ApiStep(t, from, to, ok) ==
    /\ ct_pc[t] = from
    /\ ct_log' = [ct_log EXCEPT ![t] = Append(@, from)]
    /\ ct_trace' = Append(ct_trace, <<t, ct_calls[t], from>>)
    /\ IF ok THEN /\ ct_pc' = [ct_pc EXCEPT ![t] = to]
                  /\ UNCHANGED <<ct_failed, ct_lock, ct_poisoned>>
       ELSE Panic(t, from)
    /\ ct_stale_use' = (ct_stale_use \/ ~IsSome(ct_vma) \/ ct_device = "destroyed")
    /\ UNCHANGED <<ct_calls, ct_result, ct_vma, ct_device, ct_after_destroy>>

\* A thread calls create_texture; the usage flags are computed first.
CallCreateTexture(t) ==
    /\ ct_pc[t] = "idle"
    /\ ct_calls[t] < MaxCreates
    /\ ct_calls' = [ct_calls EXCEPT ![t] = @ + 1]
    /\ ct_pc' = [ct_pc EXCEPT ![t] = "lock"]
    /\ ct_log' = [ct_log EXCEPT ![t] = <<>>]
    /\ ct_result' = [ct_result EXCEPT ![t] = None]
    /\ ct_after_destroy' = [ct_after_destroy EXCEPT ![t] = (ct_device = "destroyed")]
    /\ UNCHANGED <<ct_trace, ct_failed, ct_vma, ct_device, ct_stale_use, ct_lock,
                   ct_poisoned>>
    /\ UNCHANGED <<constructVars, textureVars, resolveVars, selectVars, submitVars, lifeVars>>

\* let mut guard = self.vma.lock().unwrap();
LockAllocator(t) ==
    /\ ct_pc[t] = "lock"
    /\ ct_lock = "free"
    /\ IF ct_poisoned
       THEN Panic(t, "lock")
       ELSE /\ ct_lock' = t
            /\ ct_pc' = [ct_pc EXCEPT ![t] = "as_mut"]
            /\ UNCHANGED <<ct_failed, ct_poisoned>>
    /\ UNCHANGED <<ct_calls, ct_log, ct_trace, ct_result, ct_vma, ct_device, ct_after_destroy, ct_stale_use>>
    /\ UNCHANGED <<constructVars, textureVars, resolveVars, selectVars, submitVars, lifeVars>>

\* let vma = guard.as_mut().unwrap();
UnwrapAllocator(t) ==
    /\ ct_pc[t] = "as_mut"
    /\ IF IsSome(ct_vma)
       THEN /\ ct_pc' = [ct_pc EXCEPT ![t] = "create_image"]
            /\ UNCHANGED <<ct_failed, ct_lock, ct_poisoned>>
       ELSE Panic(t, "as_mut")
    /\ UNCHANGED <<ct_calls, ct_log, ct_trace, ct_result, ct_vma, ct_device, ct_after_destroy, ct_stale_use>>
    /\ UNCHANGED <<constructVars, textureVars, resolveVars, selectVars, submitVars, lifeVars>>

\* self.raw.create_image(..).expect("Failed to create image!")
CreateImage(t, ok) ==
    /\ ApiStep(t, "create_image", "get_image_memory_requirements", ok)
    /\ UNCHANGED <<constructVars, textureVars, resolveVars, selectVars, submitVars, lifeVars>>

\* self.raw.get_image_memory_requirements(image), which returns no Result
GetImageMemoryRequirements(t) ==
    /\ ApiStep(t, "get_image_memory_requirements", "allocate", TRUE)
    /\ UNCHANGED <<constructVars, textureVars, resolveVars, selectVars, submitVars, lifeVars>>

AllocateThenUnlock(t, ok) ==
    /\ ct_pc[t] = "allocate"
    /\ ct_log' = [ct_log EXCEPT ![t] = Append(@, "allocate")]
    /\ ct_trace' = Append(ct_trace, <<t, ct_calls[t], "allocate">>)
    /\ ct_pc' = [ct_pc EXCEPT ![t] = "bind_image_memory"]
    /\ ct_lock' = "free"
    /\ ct_stale_use' = (ct_stale_use \/ ~IsSome(ct_vma) \/ ct_device = "destroyed")
    /\ UNCHANGED <<ct_failed, ct_poisoned, ct_calls, ct_result, ct_vma, ct_device,
                   ct_after_destroy>>
    /\ UNCHANGED <<constructVars, textureVars, resolveVars, selectVars, submitVars, lifeVars>>

\* vma.allocate(..).expect("Failed to allocate memory!")
Allocate(t, ok) ==
    /\ ApiStep(t, "allocate", "bind_image_memory", ok)
    /\ UNCHANGED <<constructVars, textureVars, resolveVars, selectVars, submitVars, lifeVars>>

\* self.raw.bind_image_memory(..).expect("Failed to bind image memory!")
BindImageMemory(t, ok) ==
    /\ ApiStep(t, "bind_image_memory", "create_sampler", ok)
    /\ UNCHANGED <<constructVars, textureVars, resolveVars, selectVars, submitVars, lifeVars>>

\* self.raw.create_sampler(..).expect("Failed to create sampler!")
CreateSampler(t, ok) ==
    /\ ApiStep(t, "create_sampler", "create_image_view", ok)
    /\ UNCHANGED <<constructVars, textureVars, resolveVars, selectVars, submitVars, lifeVars>>

\* self.raw.create_image_view(..).expect("Failed to create image view!")
CreateImageView(t, ok) ==
    /\ ApiStep(t, "create_image_view", "return", ok)
    /\ UNCHANGED <<constructVars, textureVars, resolveVars, selectVars, submitVars, lifeVars>>

\* VulkanTexture { .. } is returned and the guard is dropped.
ReturnTexture(t) ==
    /\ ct_pc[t] = "return"
    /\ ct_pc' = [ct_pc EXCEPT ![t] = "returned"]
    /\ ct_result' = [ct_result EXCEPT ![t] = Some(NewTexture(t, ct_calls[t]))]
    /\ ct_lock' = "free"
    /\ UNCHANGED <<ct_calls, ct_log, ct_trace, ct_failed, ct_vma, ct_device, ct_after_destroy, ct_stale_use, ct_poisoned>>
    /\ UNCHANGED <<constructVars, textureVars, resolveVars, selectVars, submitVars, lifeVars>>

\* The caller goes on after create_texture has returned.
ContinueAfterCreate(t) ==
    /\ ct_pc[t] = "returned"
    /\ ct_pc' = [ct_pc EXCEPT ![t] = "idle"]
    /\ UNCHANGED <<ct_calls, ct_log, ct_trace, ct_failed, ct_result, ct_vma, ct_device, ct_after_destroy, ct_stale_use,
                   ct_lock, ct_poisoned>>
    /\ UNCHANGED <<constructVars, textureVars, resolveVars, selectVars, submitVars, lifeVars>>

\* A thread calls destroy on its clone of the device: self.wait_idle()
DestroyCall(t) ==
    /\ ct_pc[t] = "idle"
    /\ ct_device = "alive"
    /\ \A u \in Threads : ct_pc[u] \notin {"wait_idle", "take", "destroy_device"}
    /\ ct_pc' = [ct_pc EXCEPT ![t] = "wait_idle"]
    /\ ct_log' = [ct_log EXCEPT ![t] = <<>>]
    /\ ct_result' = [ct_result EXCEPT ![t] = None]
    /\ UNCHANGED <<ct_calls, ct_trace, ct_failed, ct_vma, ct_lock,
                   ct_poisoned, ct_device, ct_after_destroy, ct_stale_use>>
    /\ UNCHANGED <<constructVars, textureVars, resolveVars, selectVars, submitVars, lifeVars>>

\* self.raw.device_wait_idle().expect("Wait idle failed!")
DestroyIdleWait(t, ok) ==
    /\ ct_pc[t] = "wait_idle"
    /\ IF ok THEN /\ ct_pc' = [ct_pc EXCEPT ![t] = "take"]
                  /\ UNCHANGED <<ct_failed, ct_lock, ct_poisoned>>
       ELSE Panic(t, "wait_idle")
    /\ UNCHANGED <<ct_calls, ct_log, ct_trace, ct_result, ct_vma, ct_device,
                   ct_after_destroy, ct_stale_use>>
    /\ UNCHANGED <<constructVars, textureVars, resolveVars, selectVars, submitVars, lifeVars>>

DestroyTakeAllocatorSkipped(t) ==
    /\ ct_pc[t] = "take"
    /\ ct_lock = "free"
    /\ ct_pc' = [ct_pc EXCEPT ![t] = "destroy_device"]
    /\ UNCHANGED <<ct_vma, ct_failed, ct_lock, ct_poisoned>>
    /\ UNCHANGED <<ct_calls, ct_log, ct_trace, ct_result, ct_device, ct_after_destroy,
                   ct_stale_use>>
    /\ UNCHANGED <<constructVars, textureVars, resolveVars, selectVars, submitVars, lifeVars>>

\* std::mem::drop(self.vma.lock().unwrap().take()): one statement, the guard
\* lives to its end.
DestroyTakeAllocator(t) ==
    /\ ct_pc[t] = "take"
    /\ ct_lock = "free"
    /\ IF ct_poisoned
       THEN Panic(t, "destroy_lock") /\ UNCHANGED ct_vma
       ELSE /\ ct_vma' = None
            /\ ct_pc' = [ct_pc EXCEPT ![t] = "destroy_device"]
            /\ UNCHANGED <<ct_failed, ct_lock, ct_poisoned>>
    /\ UNCHANGED <<ct_calls, ct_log, ct_trace, ct_result, ct_device, ct_after_destroy,
                   ct_stale_use>>
    /\ UNCHANGED <<constructVars, textureVars, resolveVars, selectVars, submitVars, lifeVars>>

\* self.raw.destroy_device(None) and the destruction of the surface, the
\* debug messenger and the instance; destroy returns.
DestroyHandles(t) ==
    /\ ct_pc[t] = "destroy_device"
    /\ ct_device' = "destroyed"
    /\ ct_pc' = [ct_pc EXCEPT ![t] = "idle"]
    /\ UNCHANGED <<ct_calls, ct_log, ct_trace, ct_failed, ct_result, ct_vma, ct_lock,
                   ct_poisoned, ct_after_destroy, ct_stale_use>>
    /\ UNCHANGED <<constructVars, textureVars, resolveVars, selectVars, submitVars, lifeVars>>

CreateNext ==
    \/ \E t \in Threads : CallCreateTexture(t)
    \/ \E t \in Threads : LockAllocator(t)
    \/ \E t \in Threads : UnwrapAllocator(t)
    \/ \E t \in Threads, ok \in BOOLEAN : CreateImage(t, ok)
    \/ \E t \in Threads : GetImageMemoryRequirements(t)
    \/ \E t \in Threads, ok \in BOOLEAN : Allocate(t, ok)
    \/ \E t \in Threads, ok \in BOOLEAN : BindImageMemory(t, ok)
    \/ \E t \in Threads, ok \in BOOLEAN : CreateSampler(t, ok)
    \/ \E t \in Threads, ok \in BOOLEAN : CreateImageView(t, ok)
    \/ \E t \in Threads : ReturnTexture(t)
    \/ \E t \in Threads : ContinueAfterCreate(t)
    \/ \E t \in Threads : DestroyCall(t)
    \/ \E t \in Threads, ok \in BOOLEAN : DestroyIdleWait(t, ok)
    \/ \E t \in Threads : DestroyTakeAllocator(t)
    \/ \E t \in Threads : DestroyHandles(t)

CreateIdle ==
    /\ ct_pc = None /\ ct_calls = None /\ ct_log = None /\ ct_trace = None
    /\ ct_failed = None /\ ct_result = None /\ ct_vma = None
    /\ ct_lock = "idle" /\ ct_poisoned = FALSE
    /\ ct_device = "idle" /\ ct_after_destroy = None /\ ct_stale_use = FALSE

ConstructIdle == dc_families = None /\ dc_result = None

TextureIdle == tex_request = None /\ tex_built = None /\ tex_pair = None /\ tex_cmp = None

LifeIdle ==
    /\ shader_state = None
    /\ texture_state = None
    /\ handle_state = None
    /\ destruction_queue = None
    /\ in_flight = {}
    /\ work_count = 0
    /\ freed_in_flight = {}
    /\ last_call = None
    /\ vma = None
    /\ alive = {}
    /\ destroy_pc = "idle"
    /\ teardown = None

InitResolve == ResolveInit /\ SelectIdle /\ SubmitIdle /\ LifeIdle /\ TextureIdle /\ ConstructIdle /\ CreateIdle
NextResolve == Resolve
SpecResolve == InitResolve /\ [][NextResolve]_vars

InitSelect == SelectInit /\ ResolveIdle /\ SubmitIdle /\ LifeIdle /\ TextureIdle /\ ConstructIdle /\ CreateIdle
NextSelect == Select
SpecSelect == InitSelect /\ [][NextSelect]_vars

InitRate == RateInit /\ ResolveIdle /\ SubmitIdle /\ LifeIdle /\ TextureIdle /\ ConstructIdle /\ CreateIdle
NextRate == RateAndSelect
SpecRate == InitRate /\ [][NextRate]_vars

InitTexture == TextureInit /\ ResolveIdle /\ SelectIdle /\ SubmitIdle /\ LifeIdle /\ ConstructIdle /\ CreateIdle
NextTexture == DescribeTexture
SpecTexture == InitTexture /\ [][NextTexture]_vars

InitTextureEq == TextureEqInit /\ ResolveIdle /\ SelectIdle /\ SubmitIdle /\ LifeIdle /\ ConstructIdle /\ CreateIdle
NextTextureEq == CompareTextures
SpecTextureEq == InitTextureEq /\ [][NextTextureEq]_vars

InitConstruct ==
    ConstructInit /\ ResolveIdle /\ SelectIdle /\ SubmitIdle /\ LifeIdle /\ TextureIdle
        /\ CreateIdle
NextConstruct == CreateLogicalDevice
SpecConstruct == InitConstruct /\ [][NextConstruct]_vars

InitCreate ==
    CreateInit /\ ResolveIdle /\ SelectIdle /\ SubmitIdle /\ LifeIdle /\ TextureIdle
        /\ ConstructIdle
SpecCreate == InitCreate /\ [][CreateNext]_vars

InitSubmit == SubmitInit /\ ResolveIdle /\ SelectIdle /\ LifeIdle /\ TextureIdle /\ ConstructIdle /\ CreateIdle
SpecSubmit == InitSubmit /\ [][SubmitNext]_vars

InitLife == LifeInit /\ ResolveIdle /\ SelectIdle /\ SubmitIdle /\ TextureIdle /\ ConstructIdle /\ CreateIdle
SpecLife == InitLife /\ [][LifeNext]_vars

(***************************************************************************)
(* Properties of the queue family resolver                                 *)
(***************************************************************************)
Min(S) == CHOOSE x \in S : \A y \in S : x <= y
Max(S) == CHOOSE x \in S : \A y \in S : x >= y

FamilyIndexes == 0..(Len(qf_properties) - 1)
FamilyAt(j) == qf_properties[j + 1]
\* What the device really offers, read off the property records.
PresentCapable == {j \in FamilyIndexes : FamilyAt(j).surface_support = "OkTrue"}
CombinedCapable ==
    {j \in FamilyIndexes : {"GRAPHICS", "COMPUTE"} \subseteq FamilyAt(j).queue_flags}
ComputeCapable == {j \in FamilyIndexes : "COMPUTE" \in FamilyAt(j).queue_flags}
GraphicsCapable == {j \in FamilyIndexes : "GRAPHICS" \in FamilyAt(j).queue_flags}

ResolverReturned == qf_result[1] = "returned"
ResolverSome == ResolverReturned /\ IsSome(qf_result[2])
Indices == Unwrap(qf_result[2])

\* The first family by which a combined family and a present-capable family
\* have both been seen: the iteration at which the resolver returns.
ReturnIndex ==
    Min({i \in FamilyIndexes :
            /\ \E j \in CombinedCapable : j <= i
            /\ \E j \in PresentCapable : j <= i})

C9_SomeIffResolvable ==
    ResolverReturned =>
        /\ IsSome(qf_result[2]) <=> (CombinedCapable # {} /\ PresentCapable # {})
        /\ IsSome(qf_result[2]) =>
              /\ Indices.graphics_family \in GraphicsCapable
              /\ Indices.compute_family \in ComputeCapable
              /\ Indices.present_family \in PresentCapable

\* C9 witness: None is returned for a device that has a combined family and a
\* family whose presentation support query failed.
C9_Witness ==
    /\ ResolverReturned
    /\ ~IsSome(qf_result[2])
    /\ CombinedCapable # {}
    /\ \E j \in FamilyIndexes : FamilyAt(j).surface_support = "Err"

(***************************************************************************)
(* Properties of the physical device selection                             *)
(***************************************************************************)
DevicePositions == 1..Len(physical_devices)
ScoreAt(k) == physical_devices[k].score
SelectorDone == sel_result[1] # "pending" /\ sel_result[1] # "idle"

\* C10: the selector picks a device of maximum score, the first enumerated
\* among those of that score, and panics exactly when the enumeration is empty
\* or the maximum score is 0.
C10_MaxScoreFirstWins ==
    SelectorDone =>
        /\ sel_result[1] = "panic"
              <=> (DevicePositions = {}
                      \/ \A k \in DevicePositions : ScoreAt(k) = ToU32(0))
        /\ sel_result[1] = "selected" =>
              /\ sel_result[2] \in DevicePositions
              /\ \A k \in DevicePositions : U32Ge(ScoreAt(sel_result[2]), ScoreAt(k))
              /\ \A k \in DevicePositions :
                    k < sel_result[2] => U32Gt(ScoreAt(sel_result[2]), ScoreAt(k))

\* C10 witness: two devices share the maximum score and the earlier one is
\* selected.
C10_Witness ==
    /\ SelectorDone
    /\ sel_result[1] = "selected"
    /\ \E k \in DevicePositions :
          k > sel_result[2] /\ ScoreAt(k) = ScoreAt(sel_result[2])

(***************************************************************************)
(* Properties of device rating                                             *)
(***************************************************************************)
CandidatePositions == 1..Len(candidates)
SwapchainFields == {"capabilities", "surface_formats", "present_modes"}

\* The device cannot fill a required queue role, or one of its three
\* swapchain-support queries fails.
Ineligible(dev) ==
    \/ ~\E i \in 1..Len(dev.queue_families) :
            dev.queue_families[i].surface_support = "OkTrue"
    \/ ~\E i \in 1..Len(dev.queue_families) :
            {"GRAPHICS", "COMPUTE"} \subseteq dev.queue_families[i].queue_flags
    \/ \E f \in SwapchainFields : dev.swapchain[f] = "Err"

\* C11: a device that lacks a required queue role or whose swapchain-support
\* query fails is scored 0 whatever its type and its maximum 2D image
\* dimension, and it is never the selected device.
C11_IneligibleScoresZero ==
    SelectorDone =>
        \A k \in CandidatePositions :
            Ineligible(candidates[k]) =>
                /\ k <= Len(rated) => rated[k] = <<"ok", ToU32(0)>>
                /\ sel_result # <<"selected", k>>

\* C11 witness: a discrete device with a large image dimension fails a
\* swapchain query, is rated 0, and another device is selected.
C11_Witness ==
    /\ SelectorDone
    /\ sel_result[1] = "selected"
    /\ \E k \in CandidatePositions :
          /\ Ineligible(candidates[k])
          /\ \E f \in SwapchainFields : candidates[k].swapchain[f] = "Err"
          /\ candidates[k].device_type = "DISCRETE_GPU"
          /\ candidates[k].max_image_dimension2_d = [hi |-> 0, lo |-> 16384]
          /\ k <= Len(rated)
          /\ rated[k] = <<"ok", ToU32(0)>>

\* C12: of an eligible discrete and an eligible integrated device with the
\* same maximum 2D image dimension, the discrete one gets the strictly
\* greater score and the integrated one is not selected.
C12_DiscreteBeatsIntegrated ==
    SelectorDone =>
        \A i, j \in CandidatePositions :
            ( /\ ~Ineligible(candidates[i]) /\ ~Ineligible(candidates[j])
              /\ candidates[i].device_type = "DISCRETE_GPU"
              /\ candidates[j].device_type = "INTEGRATED_GPU"
              /\ candidates[i].max_image_dimension2_d
                    = candidates[j].max_image_dimension2_d )
            => /\ Len(rated) = Len(candidates)
               /\ rated[i][1] = "ok" /\ rated[j][1] = "ok"
               /\ U32Gt(rated[i][2], rated[j][2])
               /\ sel_result # <<"selected", j>>

(***************************************************************************)
(* Properties of queue submission                                          *)
(***************************************************************************)
\* C1: when wait_submit has returned, the GPU has finished the work it
\* submitted and the context's fence is signaled.
C1_WaitSubmitReturnsComplete ==
    \A t \in Threads :
        (pc[t] = "returned" /\ op[t] = "wait_submit")
            => (<<t, calls[t]>> \in completed /\ fence_signaled[ContextFence(t)])

\* C2: two threads submitting through different roles are never both inside
\* the queue submit critical section of the same physical queue.
C2_AliasedQueueSerialized ==
    \A t1, t2 \in Threads :
        (/\ t1 # t2
         /\ pc[t1] = "critical"
         /\ pc[t2] = "critical"
         /\ LockOf(t1) # LockOf(t2))
            => QueueOfRole(LockOf(t1)) # QueueOfRole(LockOf(t2))

\* The positions of call_log[t] at which the step what was done.
LogPositions(t, what) == {i \in 1..Len(call_log[t]) : call_log[t][i] = what}

\* In the call thread t is in, the fence is reset once, the queue submit
\* (the lock of the queue's Mutex and vkQueueSubmit, one statement) is the
\* next thing the call does, and no reset follows the submit.
ResetOnceBeforeSubmit(t) ==
    /\ Cardinality(LogPositions(t, "fence_reset")) <= 1
    /\ \A i \in LogPositions(t, "queue_submit") :
          /\ i >= 3
          /\ call_log[t][i - 2] = "fence_reset"
          /\ call_log[t][i - 1] = "queue_lock"
          /\ \A j \in LogPositions(t, "fence_reset") : j < i
    /\ pc[t] = "returned" =>
          /\ Cardinality(LogPositions(t, "fence_reset")) = 1
          /\ Cardinality(LogPositions(t, "queue_submit")) = 1

\* C13 as stated: the fence of a queue submission is reset exactly once,
\* immediately before the queue submit and never after it, and when the call
\* has returned the fence is signaled only if the GPU has finished the
\* submission of that call.
C13_FenceSignaledOnlyByOwnSubmission ==
    \A t \in Threads :
        /\ ResetOnceBeforeSubmit(t)
        /\ (pc[t] = "returned" /\ fence_signaled[FenceOf(t)])
              => <<t, calls[t]>> \in completed

\* C13 amended: the reset is as stated; the fence of a returned call is
\* signaled only by the completion of its submission provided no other call
\* used the same fence while either submission was unresolved.
C13_FenceSignaledByOwnUnlessShared ==
    \A t \in Threads :
        /\ ResetOnceBeforeSubmit(t)
        /\ (pc[t] = "returned" /\ fence_signaled[FenceOf(t)]
               /\ <<t, calls[t]>> \notin fence_overlap)
              => <<t, calls[t]>> \in completed

\* C13 witness: a device queue submit has returned, its fence was used by no
\* other unresolved call, and the fence is signaled by its submission.
C13_Witness ==
    \E t \in Threads :
        /\ pc[t] = "returned"
        /\ op[t] \in DeviceOps
        /\ call_log[t] = <<"fence_reset", "queue_lock", "queue_submit">>
        /\ <<t, calls[t]>> \notin fence_overlap
        /\ fence_signaled[FenceOf(t)]
        /\ <<t, calls[t]>> \in completed
        /\ \E u \in Threads \ {t} : calls[u] > 0 /\ op[u] \in DeviceOps

IsPrefix(a, b) == Len(a) <= Len(b) /\ \A i \in 1..Len(a) : a[i] = b[i]

SubmitSteps ==
    <<"begin_command_buffer", "record", "end_command_buffer",
      "fence_reset", "queue_lock", "queue_submit", "recycle">>

\* The submissions of the current call of thread t that the queue q holds.
QueuedBy(t, q) ==
    {i \in 1..Len(hw_queue[q]) : hw_queue[q][i].id = <<t, calls[t]>>}

\* C17: a submit call begins a command buffer, runs the closure, ends the
\* recording, submits to the graphics queue with the caller's fence if one is
\* given and the context's fence otherwise, and recycles the pool, in this
\* order and each once; no step of it but the lock of the queue's Mutex can
\* block, so it returns without waiting on a fence.
C17_SubmitStepsInOrder ==
    \A t \in Threads :
        op[t] \in {"submit_none", "submit_some"} =>
            /\ IsPrefix(call_log[t], SubmitSteps)
            /\ pc[t] = "returned" => call_log[t] = SubmitSteps
            /\ \A q \in PhysicalQueues : \A i \in QueuedBy(t, q) :
                  /\ q = QueueOfRole("graphics")
                  /\ hw_queue[q][i].fence =
                        IF op[t] = "submit_some" THEN CallerFence(t) ELSE ContextFence(t)
            /\ pc[t] \in {"begin", "record", "end", "reset", "critical", "recycle"} =>
                  ENABLED (\/ BeginCommandBuffer(t) \/ Record(t) \/ EndCommandBuffer(t)
                           \/ FenceReset(t) \/ QueueSubmit(t) \/ Recycle(t))

\* C17 witness: a submit call with a caller's fence has returned after its
\* five steps while the GPU still holds its submission and the fence is
\* unsignaled.
C17_Witness ==
    \E t \in Threads :
        /\ op[t] = "submit_some"
        /\ pc[t] = "returned"
        /\ call_log[t] = SubmitSteps
        /\ QueuedBy(t, QueueOfRole("graphics")) # {}
        /\ ~fence_signaled[CallerFence(t)]
        /\ <<t, calls[t]>> \notin completed

(***************************************************************************)
(* Properties of resource destruction and teardown                         *)
(***************************************************************************)
\* C3: destroy_shader hands the shader module to the destruction queue as one
\* batch and does not destroy the module at the time of the call.
C3_DestroyShaderDefers ==
    last_call.op = "destroy_shader" =>
        /\ handle_state[ShaderModule(last_call.arg)] = "alive"
        /\ destruction_queue # <<>>
        /\ destruction_queue[Len(destruction_queue)]
              = <<VulkanDestructor("ShaderModule", ShaderModule(last_call.arg))>>

FourRequests(t) ==
    { [kind |-> "Image", handle |-> <<"Image", t>>],
      [kind |-> "ImageView", handle |-> <<"ImageView", t>>],
      [kind |-> "Sampler", handle |-> <<"Sampler", t>>],
      [kind |-> "Allocation", handle |-> <<"Allocation", t>>] }

BatchesOf(t) ==
    {k \in 1..Len(destruction_queue) :
        \E i \in 1..Len(destruction_queue[k]) :
            destruction_queue[k][i].handle \in TextureHandles(t)}

\* C4: destroy_texture makes exactly one queue_destruction call, with exactly
\* the four requests Image, ImageView, Sampler and Allocation of the texture
\* as one batch, and frees nothing itself: right after the call the four are
\* still alive and the batch is the newest of the queue; later the four are
\* either all alive in that one batch or all freed with the batch gone.
C4_DestroyTextureEnqueuesFour ==
    /\ last_call.op = "destroy_texture" =>
          LET t == last_call.arg
              batch == last_call.api[1].arg
          IN /\ Len(last_call.api) = 1
             /\ last_call.api[1].call = "queue_destruction"
             /\ Len(batch) = 4
             /\ {batch[i] : i \in 1..4} = FourRequests(t)
             /\ destruction_queue # <<>>
             /\ destruction_queue[Len(destruction_queue)] = batch
             /\ \A h \in TextureHandles(t) : handle_state[h] = "alive"
    /\ \A t \in Textures :
          texture_state[t] = "destroyed" =>
              \/ /\ \A h \in TextureHandles(t) : handle_state[h] = "alive"
                 /\ Cardinality(BatchesOf(t)) = 1
                 /\ \A k \in BatchesOf(t) :
                       /\ Len(destruction_queue[k]) = 4
                       /\ {destruction_queue[k][i] : i \in 1..4} = FourRequests(t)
              \/ /\ \A h \in TextureHandles(t) : handle_state[h] = "freed"
                 /\ BatchesOf(t) = {}

\* C4 witness: destroy_texture has just run on a texture that unfinished GPU
\* work uses.
C4_Witness ==
    /\ last_call.op = "destroy_texture"
    /\ TextureHandles(last_call.arg) \subseteq InFlightHandles
    /\ Len(destruction_queue) = 2

\* C5: no handle or allocation of a destroyed resource is freed while GPU
\* work that uses it is in flight.
C5_NoFreeWhileInFlight ==
    /\ freed_in_flight = {}
    /\ \A h \in InFlightHandles : handle_state[h] # "freed"

FullTeardown ==
    <<"wait_idle", "drop_allocator", "destroy_device", "destroy_surface",
      "destroy_debug_utils_messenger", "destroy_instance">>

\* C6: VulkanDevice::destroy does its steps in the order idle wait, allocator
\* taken and dropped, device destroyed, then surface, debug messenger and
\* instance; the device is never destroyed while the allocator exists or
\* before the idle wait has returned, and the allocator is not dropped before
\* the idle wait has returned.
C6_TeardownOrder ==
    /\ IsPrefix(teardown, FullTeardown)
    /\ "device" \notin alive =>
          /\ vma = None
          /\ Len(teardown) >= 3
          /\ teardown[1] = "wait_idle"
          /\ teardown[2] = "drop_allocator"
    /\ vma = None => (Len(teardown) >= 2 /\ teardown[1] = "wait_idle")
    /\ alive # {"device", "surface", "debug_messenger", "instance"}
          => "device" \notin alive
    /\ destroy_pc = "done" => (teardown = FullTeardown /\ alive = {})

\* C6 witness: destroy has returned on a device that had GPU work submitted
\* and still holds a queued destruction batch.
C6_Witness ==
    /\ destroy_pc = "done"
    /\ work_count > 0
    /\ destruction_queue # <<>>

(***************************************************************************)
(* Properties of texture descriptions                                      *)
(***************************************************************************)
TextureDescribed == IsSome(tex_built)
Built == Unwrap(tex_built)

\* C14: the usage flags of the created image are exactly the translations of
\* the requested usage bits, ATTACHMENT becoming the depth-stencil attachment
\* flag for the Depth format and the color attachment flag otherwise, never
\* both; the aspect mask of the subresource range is DEPTH for the Depth
\* format and COLOR otherwise.
C14_UsageTranslation ==
    TextureDescribed =>
        LET req == tex_request
            flags == Built.image_create_info.usage
            aspect == Built.texture.subresource_range.aspect_mask
        IN /\ \A b \in {"SAMPLED", "TRANSFER_SRC", "TRANSFER_DST", "STORAGE"} :
                 b \in flags <=> b \in req.usage
           /\ "DEPTH_STENCIL_ATTACHMENT" \in flags
                 <=> ("ATTACHMENT" \in req.usage /\ req.format = "Depth")
           /\ "COLOR_ATTACHMENT" \in flags
                 <=> ("ATTACHMENT" \in req.usage /\ req.format # "Depth")
           /\ ~({"DEPTH_STENCIL_ATTACHMENT", "COLOR_ATTACHMENT"} \subseteq flags)
           /\ flags \subseteq {"SAMPLED", "TRANSFER_SRC", "TRANSFER_DST", "STORAGE",
                               "DEPTH_STENCIL_ATTACHMENT", "COLOR_ATTACHMENT"}
           /\ aspect = (IF req.format = "Depth" THEN {"DEPTH"} ELSE {"COLOR"})
           /\ Built.image_view_create_info.subresource_range.aspect_mask = aspect

\* C14 witness: a Depth texture requested as attachment and sampled gets the
\* depth-stencil attachment flag, the sampled flag and the DEPTH aspect.
C14_Witness ==
    /\ TextureDescribed
    /\ tex_request.format = "Depth"
    /\ tex_request.usage = {"ATTACHMENT", "SAMPLED"}
    /\ Built.image_create_info.usage = {"DEPTH_STENCIL_ATTACHMENT", "SAMPLED"}
    /\ Built.texture.subresource_range.aspect_mask = {"DEPTH"}

\* C15: the four places that depend on cubemap-ness agree: a cubemap format
\* gives 6 array layers, the cube-compatible flag, layer_count 6 and a CUBE
\* view; any other format gives 1 layer, no flag, layer_count 1 and a 2D view.
C15_CubemapAgreement ==
    TextureDescribed =>
        LET image == Built.image_create_info
            range == Built.texture.subresource_range
            view == Built.image_view_create_info
        IN /\ view.subresource_range = range
           /\ IF tex_request.format \in {"CubemapRGBA8"}
              THEN /\ image.array_layers = 6
                   /\ image.flags = {"CUBE_COMPATIBLE"}
                   /\ range.layer_count = 6
                   /\ view.view_type = "CUBE"
              ELSE /\ image.array_layers = 1
                   /\ image.flags = {}
                   /\ range.layer_count = 1
                   /\ view.view_type = "TYPE_2D"

\* C15 witness: a cubemap texture has been described with its 6 layers and
\* CUBE view.
C15_Witness ==
    /\ TextureDescribed
    /\ is_cubemap(tex_request.format)
    /\ Built.image_create_info.array_layers = 6
    /\ Built.image_view_create_info.view_type = "CUBE"
    /\ Built.image_view_create_info.subresource_range.layer_count = 6

(***************************************************************************)
(* Properties of texture identity                                          *)
(***************************************************************************)
Compared == IsSome(tex_cmp)
SameHandles ==
    \A field \in {"image", "sampler", "image_view"} :
        tex_pair[1][field] = tex_pair[2][field]

\* C16: two VulkanTexture values are equal exactly when their image, sampler
\* and image view handles are equal, whatever their other fields; hash
\* writes these three handles, so equal textures write the same values.
C16_EqualityByHandles ==
    Compared =>
        /\ Unwrap(tex_cmp).eq <=> SameHandles
        /\ Unwrap(tex_cmp).hash_self
              = <<tex_pair[1].image, tex_pair[1].sampler, tex_pair[1].image_view>>
        /\ Unwrap(tex_cmp).eq => Unwrap(tex_cmp).hash_self = Unwrap(tex_cmp).hash_other

\* C16 witness: two textures that differ in width, format and allocation but
\* have the same three handles compare equal.
C16_Witness ==
    /\ Compared
    /\ Unwrap(tex_cmp).eq
    /\ tex_pair[1].width # tex_pair[2].width
    /\ tex_pair[1].format # tex_pair[2].format
    /\ tex_pair[1].allocation # tex_pair[2].allocation

(***************************************************************************)
(* Properties of logical device construction                               *)
(***************************************************************************)
Constructed == IsSome(dc_result)
Device == Unwrap(dc_result)
RoleFamilies ==
    {Device.queue_family_indices.graphics_family,
     Device.queue_family_indices.compute_family,
     Device.queue_family_indices.present_family}
InfoPositions == 1..Len(Device.queue_create_infos)

\* C19: the construction makes one queue create record per distinct family
\* among graphics, compute and present - 1 to 3 records, no family twice,
\* none missing - each with a single priority; the queue of each role is
\* queue 0 of the role's family, so roles of equal family have the same
\* queue.
C19_OneRecordPerFamily ==
    Constructed =>
        /\ Len(Device.queue_create_infos) \in 1..3
        /\ {Device.queue_create_infos[k].queue_family_index : k \in InfoPositions}
              = RoleFamilies
        /\ \A i, j \in InfoPositions :
              Device.queue_create_infos[i].queue_family_index
                 = Device.queue_create_infos[j].queue_family_index => i = j
        /\ \A k \in InfoPositions : Len(Device.queue_create_infos[k].queue_priorities) = 1
        /\ Device.graphics_queue = <<Device.queue_family_indices.graphics_family, 0>>
        /\ Device.compute_queue = <<Device.queue_family_indices.compute_family, 0>>
        /\ Device.present_queue = <<Device.queue_family_indices.present_family, 0>>
        /\ Device.queue_family_indices.graphics_family
              = Device.queue_family_indices.present_family
              => Device.graphics_queue = Device.present_queue
        /\ Device.queue_family_indices.graphics_family
              = Device.queue_family_indices.compute_family
              => Device.graphics_queue = Device.compute_queue
        /\ Device.queue_family_indices.compute_family
              = Device.queue_family_indices.present_family
              => Device.compute_queue = Device.present_queue

\* C19 witness: compute and present share a family and graphics has another:
\* two records, the later family first, and the compute and present queues
\* are the same queue.
C19_Witness ==
    /\ Constructed
    /\ Len(Device.queue_create_infos) = 2
    /\ Device.queue_create_infos[1].queue_family_index
          > Device.queue_create_infos[2].queue_family_index
    /\ Device.compute_queue = Device.present_queue
    /\ Device.present_queue # Device.graphics_queue

(***************************************************************************)
(* Properties of create_texture                                            *)
(***************************************************************************)
StepNames == {CreateSteps[i] : i \in 1..Len(CreateSteps)}
Last(seq) == seq[Len(seq)]

\* C18: the API steps of a create_texture call happen in the order image
\* creation, memory requirement query, allocation, bind, sampler creation,
\* image view creation, so the image is bound before a sampler or a view is
\* created; a step that fails ends the call: no later step runs and no
\* texture is returned.
C18_StepsInOrderFailureEnds ==
    \A t \in Threads :
        /\ IsPrefix(ct_log[t], CreateSteps)
        /\ \A i \in 1..Len(ct_log[t]) :
              ct_log[t][i] \in {"create_sampler", "create_image_view"}
                 => \E j \in 1..(i - 1) : ct_log[t][j] = "bind_image_memory"
        /\ IsSome(ct_result[t]) => (ct_log[t] = CreateSteps /\ ct_failed[t] = "none")
        /\ ct_pc[t] \in {"return", "returned"} => ct_log[t] = CreateSteps
        /\ ct_failed[t] # "none" =>
              /\ ct_pc[t] = "panicked"
              /\ ct_result[t] = None
              /\ ct_failed[t] \in StepNames =>
                    (ct_log[t] # <<>> /\ Last(ct_log[t]) = ct_failed[t])
              /\ ct_failed[t] \notin StepNames => ct_log[t] = <<>>

\* C18 witness: a call failed at the bind of the image: the first four steps
\* were made, none after, and there is no texture.
C18_Witness ==
    \E t \in Threads :
        /\ ct_pc[t] = "panicked"
        /\ ct_failed[t] = "bind_image_memory"
        /\ ct_log[t] = <<"create_image", "get_image_memory_requirements", "allocate",
                         "bind_image_memory">>
        /\ ct_result[t] = None

\* The call a step of the trace belongs to.
CallOf(entry) == <<entry[1], entry[2]>>

\* C20: a create_texture call holds the allocator lock from before its image
\* creation until it returns, so the steps of two concurrent calls never
\* interleave: all steps of one call come before the first step of the other.
C20_CallsDoNotInterleave ==
    /\ \A t \in Threads :
          ct_pc[t] \in (StepNames \cup {"as_mut", "return"}) => ct_lock = t
    /\ \A i, j, k \in 1..Len(ct_trace) :
          (i < j /\ j < k /\ CallOf(ct_trace[i]) = CallOf(ct_trace[k]))
             => CallOf(ct_trace[j]) = CallOf(ct_trace[i])
    /\ \A t, u \in Threads :
          (t # u /\ ct_pc[t] \in StepNames /\ ct_log[t] # <<>>)
             => ct_pc[u] \notin (StepNames \cup {"as_mut", "return"})

\* C20 witness: one thread has returned its texture and the other, which
\* called concurrently, is in the middle of its steps; the trace holds the
\* six steps of the first and then three of the second.
C20_Witness ==
    \E t, u \in Threads :
        /\ t # u
        /\ IsSome(ct_result[t])
        /\ ct_pc[u] = "bind_image_memory"
        /\ ct_lock = u
        /\ Len(ct_trace) = 9
        /\ \A i \in 1..6 : ct_trace[i][1] = t
        /\ \A i \in 7..9 : ct_trace[i][1] = u

(***************************************************************************)
(* Properties of create_texture after destroy                              *)
(***************************************************************************)
\* Once destroy has returned the allocator container is empty, and no API
\* step of create_texture is ever made without the allocator or on the
\* destroyed device.
AllocatorGoneAfterDestroy ==
    /\ ct_device = "destroyed" => ct_vma = None
    /\ ~ct_stale_use

\* A call that began after destroy has made no API step and returned nothing,
\* and is before or at the two unwraps of the allocator guard.
StoppedBeforeImage(t) ==
    /\ ct_log[t] = <<>>
    /\ ct_result[t] = None
    /\ ct_pc[t] \in {"lock", "as_mut", "panicked"}

\* C21 as stated: after destroy on any clone the allocator container is empty
\* for every clone and the allocator is never used again; a later
\* create_texture on any clone fails at the unwrap of the allocator,
\* guard.as_mut().unwrap(), before it creates an image.
C21_FailsAtAllocatorUnwrap ==
    /\ AllocatorGoneAfterDestroy
    /\ \A t \in Threads :
          ct_after_destroy[t] =>
              /\ StoppedBeforeImage(t)
              /\ ct_pc[t] = "panicked" => ct_failed[t] = "as_mut"

\* C21 amended: as stated, except that a later create_texture fails at the
\* unwrap of the allocator or, when a call that found the container empty has
\* already panicked with the guard and poisoned the Mutex, one statement
\* earlier at self.vma.lock().unwrap(); in both cases before any API step.
C21_FailsBeforeImage ==
    /\ AllocatorGoneAfterDestroy
    /\ \A t \in Threads :
          ct_after_destroy[t] =>
              /\ StoppedBeforeImage(t)
              /\ ct_pc[t] = "panicked" =>
                    \/ ct_failed[t] = "as_mut"
                    \/ /\ ct_failed[t] = "lock"
                       /\ ct_poisoned
                       /\ \E u \in Threads \ {t} : ct_failed[u] = "as_mut"

\* C21 witness: destroy has returned, one later call panicked at the unwrap
\* of the empty container and another at the lock of the poisoned Mutex.
C21_Witness ==
    /\ ct_device = "destroyed"
    /\ ct_vma = None
    /\ \E t, u \in Threads :
          /\ ct_after_destroy[t] /\ ct_after_destroy[u]
          /\ ct_pc[t] = "panicked" /\ ct_failed[t] = "as_mut"
          /\ ct_pc[u] = "panicked" /\ ct_failed[u] = "lock"
          /\ ct_trace = <<>>

====
